---- MODULE Spec2Model ----
(***************************************************************************)
(* Model of server.js: the annual-plan backend (Express handlers over one  *)
(* MySQL table, annual_plans).  The file holds two variants of the server: *)
(* variant 1 (lines 1-224, with reset, backup and restore) and variant 2   *)
(* (lines 226-453, with /api/data and a typeCast that returns JSON columns *)
(* as text).  The store is modelled with MySQL's semantics for the         *)
(* statements the code issues: a UNIQUE key on year, a NOT NULL JSON       *)
(* column, INSERT ... ON DUPLICATE KEY UPDATE, and TRUNCATE TABLE, which    *)
(* commits the open transaction implicitly and cannot be rolled back.      *)
(***************************************************************************)
EXTENDS Integers, Sequences, FiniteSets, TLC

\* ---------------------------------------------------------------- bounds
MaxClock == 1
MaxBatch == 2

Years == {2024, 2025}

\* ------------------------------------------------------------- JS values
Undefined == [k |-> "undefined"]
Null == [k |-> "null"]
Zero == [k |-> "number", n |-> 0]
\* A text: raw characters that are no JSON text, or the JSON text of a value.
RawText(c) == [t |-> "raw", c |-> c]
JsonText(v) == [t |-> "json", v |-> v]
JsString(text) == [k |-> "string", s |-> text]
\* An object: its yearData and monthData properties (Undefined when it has
\* none) and a label for the rest of its content.
JsObject(yd, md, rest) == [k |-> "object", yearData |-> yd, monthData |-> md, rest |-> rest]
EmptyObj == JsObject(Undefined, Undefined, "{}")
Obj1 == JsObject(Undefined, Undefined, "{a:1}")
StrAbc == JsString(RawText("abc"))
StrDark == JsString(RawText("dark"))

\* typeof v === 'string'
IsString(v) == v.k = "string"

\* JS truthiness: what !v tests.
Truthy(v) ==
    CASE v.k = "undefined" -> FALSE
      [] v.k = "null" -> FALSE
      [] v.k = "number" -> v.n # 0
      [] v.k = "string" -> v.s # RawText("")
      [] OTHER -> TRUE

\* v.name for name in {yearData, monthData}: objects have the property or
\* not; numbers and strings have none.
Prop(v, name) ==
    IF v.k = "object"
    THEN (IF name = "yearData" THEN v.yearData ELSE v.monthData)
    ELSE Undefined

\* JSON.stringify(v): undefined stays undefined, anything else becomes the
\* string holding its JSON text.
JsonStringify(v) == IF v.k = "undefined" THEN Undefined ELSE JsString(JsonText(v))

\* JSON.parse(s) for a string s: the value, or a throw.
JsonParseOk(s) == s.s.t = "json"
JsonParse(s) == s.s.v

\* The parse without its catch returning null: a string that is no JSON
\* text comes back as it is.
safeParseJsonKeepsString(data) ==
    IF IsString(data) /\ JsonParseOk(data) THEN JsonParse(data) ELSE data

safeParseJson(data) ==
    IF IsString(data)
    THEN (IF JsonParseOk(data) THEN JsonParse(data) ELSE Null)
    ELSE data

\* { yearData, monthData }: a property set to undefined is left out by
\* JSON.stringify, so the object is the same as one without it.
FullData(yearData, monthData) == JsObject(yearData, monthData, "{}")

\* ------------------------------------------------------------- the store
\* A column value: SQL NULL or a value.
SqlNull == [k |-> "NULL"]
NoRow == [present |-> FALSE]
MkRow(data, theme, bg, at) ==
    [present |-> TRUE, data |-> data, theme |-> theme, bg_images |-> bg, created_at |-> at]
EmptyTable == [y \in Years |-> NoRow]

\* A query parameter as the driver binds it: undefined and null become NULL.
Param(v) == IF v.k \in {"undefined", "null"} THEN SqlNull ELSE v

\* What a JSON column accepts: NULL, or a string that is JSON text.
JsonColumnOk(p) == p = SqlNull \/ (IsString(p) /\ p.s.t = "json")
\* The document a JSON column stores for an accepted parameter.
JsonColumn(p) == IF p = SqlNull THEN SqlNull ELSE p.s.v

\* ------------------------------------------------------------ the state
VARIABLES
    variant,      \* 1: the server of lines 1-224, 2: the server of lines 226-453
    pool,         \* the module-level pool: "undefined", "pool" or "null"
    cpc,          \* where connectToDatabase stands
    tableExists,  \* whether annual_plans exists in the database
    table,        \* annual_plans as the store has committed it: year -> row
    now,          \* the store's clock (CURRENT_TIMESTAMP)
    rst,          \* the POST /api/db/restore handler in flight
    rs,           \* the DELETE /api/test/clear-data handler in flight
    last          \* the request taken up last: what it was and its response
                  \* (status 0 while, or when, none is sent)

vars == <<variant, pool, cpc, tableExists, table, now, rst, rs, last>>

RstIdle ==
    [pc |-> "idle", body |-> <<>>, i |-> 0, n |-> 0, inTx |-> FALSE, conn |-> FALSE,
     pre |-> EmptyTable, undo |-> EmptyTable]

Init ==
    /\ variant \in {1, 2}
    /\ pool = "undefined"
    /\ cpc = "start"
    /\ tableExists \in BOOLEAN
    /\ table = EmptyTable
    /\ now = 0
    /\ rst = RstIdle
    /\ rs = "idle"
    /\ last = [op |-> "none", status |-> 0, msg |-> "none"]

\* The check as pool === null would make it: an undefined pool passes.
OfflineNullOnly == pool = "null"

\* !pool
Offline == pool # "pool"

\* What other connections read: a transaction's changes show at its commit.
Visible == IF rst.inTx THEN rst.undo ELSE table

\* The store's clock advances.
Tick ==
    /\ now < MaxClock
    /\ now' = now + 1
    /\ UNCHANGED <<variant, pool, cpc, tableExists, table, rst, rs, last>>

\* ------------------------------------------------- connectToDatabase
\* Lines 15-48 (243-286): the configuration group is resolved; with none
\* complete the function returns and pool stays undefined; otherwise the
\* pool is created and assigned before anything is awaited.
ConnectResolve ==
    /\ cpc = "start"
    /\ \E cfg \in {"manual", "platform", "none"} :
          IF cfg = "none"
          THEN /\ cpc' = "done"
               /\ pool' = pool
          ELSE /\ pool' = "pool"
               /\ cpc' = IF variant = 1 THEN "getConnection" ELSE "createTable"
    /\ UNCHANGED <<variant, tableExists, table, now, rst, rs, last>>

\* catch (err) { pool = null }
ConnectFailed ==
    /\ pool' = "null"
    /\ cpc' = "done"
    /\ UNCHANGED tableExists

\* Lines 50-53: getConnection, SET NAMES, SET CHARACTER SET, release.
ConnectVerify ==
    /\ variant = 1
    /\ cpc \in {"getConnection", "setNames", "setCharset"}
    /\ \E ok \in BOOLEAN :
          IF ok
          THEN /\ cpc' = CASE cpc = "getConnection" -> "setNames"
                            [] cpc = "setNames" -> "setCharset"
                            [] OTHER -> "createTable"
               /\ UNCHANGED <<pool, tableExists>>
          ELSE ConnectFailed
    /\ UNCHANGED <<variant, table, now, rst, rs, last>>

\* Lines 56, 64-78 (290-300): CREATE TABLE IF NOT EXISTS, the last step.
ConnectCreateTable ==
    /\ cpc = "createTable"
    /\ \E ok \in BOOLEAN :
          IF ok
          THEN /\ tableExists' = TRUE
               /\ cpc' = "done"
               /\ pool' = pool
          ELSE ConnectFailed
    /\ UNCHANGED <<variant, table, now, rst, rs, last>>

\* app.listen follows the call of connectToDatabase, which has run to its
\* first await by then.
Listening == cpc # "start"

\* ------------------------------------------------------- GET /api/status
Status ==
    /\ Listening
    /\ last' = [op |-> "status", status |-> 200, msg |-> "ok", dbConnected |-> ~Offline]
    /\ UNCHANGED <<variant, pool, cpc, tableExists, table, now, rst, rs>>

\* ---------------------------------------------------- GET /api/plan/:year
\* A JSON column as the driver hands it over: parsed by default (variant
\* 1), as its text under variant 2's typeCast; NULL is null in both.
Cell(doc) ==
    IF doc = SqlNull THEN Null
    ELSE IF variant = 1 THEN doc ELSE JsString(JsonText(doc))

\* A VARCHAR column as the driver hands it over.
TextCell(col) == IF col = SqlNull THEN Null ELSE col

\* The status a row with an unusable document gets.
CorruptStatus == IF variant = 1 THEN 404 ELSE 500

\* The response to GET /api/plan/year when the SELECT returns row.
PlanResponse(year, row) ==
    IF ~row.present
    THEN [op |-> "get", year |-> year, status |-> 404, msg |-> "nodata", stmts |-> 1]
    ELSE LET parsedData == safeParseJson(Cell(row.data))
             parsedBgImages == safeParseJson(Cell(row.bg_images))
         IN  IF ~Truthy(parsedData) \/ ~Truthy(parsedBgImages)
             THEN [op |-> "get", year |-> year, status |-> CorruptStatus, msg |-> "corrupt",
                   stmts |-> 1]
             ELSE [op |-> "get", year |-> year, status |-> 200, msg |-> "ok", stmts |-> 1,
                   theme |-> TextCell(row.theme),
                   yearData |-> Prop(parsedData, "yearData"),
                   monthData |-> Prop(parsedData, "monthData"),
                   backgroundImages |-> parsedBgImages]

GetPlan(year) ==
    /\ Listening
    /\ \E ok \in BOOLEAN :
          last' = IF Offline
                  THEN [op |-> "get", year |-> year, status |-> 503, msg |-> "offline",
                        stmts |-> 0]
                  ELSE IF ~ok \/ ~tableExists
                  THEN [op |-> "get", year |-> year, status |-> 500, msg |-> "server",
                        stmts |-> 1]
                  ELSE PlanResponse(year, Visible[year])
    /\ UNCHANGED <<variant, pool, cpc, tableExists, table, now, rst, rs>>

\* --------------------------------------------------- POST /api/plan/:year
PostBody(yearData, monthData, theme, backgroundImages) ==
    [yearData |-> yearData, monthData |-> monthData, theme |-> theme,
     backgroundImages |-> backgroundImages]
\* Bodies with both fields usable: the scenario of the specification (no
\* backgroundImages), one without a theme, one whose backgroundImages is a
\* string.
CompleteBodies ==
    {PostBody(EmptyObj, EmptyObj, StrDark, Undefined),
     PostBody(Obj1, EmptyObj, Undefined, EmptyObj),
     PostBody(EmptyObj, EmptyObj, StrDark, StrAbc)}
\* Bodies with a field left out, or present with a falsy value.
IncompleteBodies ==
    {PostBody(Undefined, EmptyObj, StrDark, EmptyObj),
     PostBody(EmptyObj, Undefined, StrDark, EmptyObj),
     PostBody(Zero, EmptyObj, StrDark, EmptyObj),
     PostBody(EmptyObj, JsString(RawText("")), StrDark, EmptyObj)}
PostBodies == CompleteBodies \cup IncompleteBodies

\* The check with its second operand lost.
IncompleteYearOnly(body) == ~Truthy(body.yearData)

\* if (!yearData || !monthData) return res.status(400)
Incomplete(body) == ~Truthy(body.yearData) \/ ~Truthy(body.monthData)

\* The row INSERT ... ON DUPLICATE KEY UPDATE data, theme, bg_images leaves
\* for the year: a new row stamped with the clock, or the old row with the
\* three columns overwritten.
UpsertRowReplace(old, data, theme, bg) == MkRow(data, theme, bg, now)

UpsertRow(old, data, theme, bg) ==
    IF old.present
    THEN [old EXCEPT !.data = data, !.theme = theme, !.bg_images = bg]
    ELSE MkRow(data, theme, bg, now)

PostResponse(year, body, status, msg, stmts) ==
    [op |-> "post", year |-> year, body |-> body, status |-> status, msg |-> msg,
     stmts |-> stmts]

\* Requests that write are served while no restore is in flight, and a
\* restore is taken up once connectToDatabase has ended and no reset is in
\* flight; requests that read are served at any time.
NoRestoreInFlight == rst.pc = "idle"

PostPlan(year, body) ==
    /\ Listening
    /\ NoRestoreInFlight
    /\ LET data == Param(JsonStringify(FullData(body.yearData, body.monthData)))
           bg == Param(JsonStringify(body.backgroundImages))
       IN  \E ok \in BOOLEAN :
             IF Offline
             THEN /\ last' = PostResponse(year, body, 503, "offline", 0)
                  /\ table' = table
             ELSE IF Incomplete(body)
             THEN /\ last' = PostResponse(year, body, 400, "incomplete", 0)
                  /\ table' = table
             ELSE IF ~ok \/ ~tableExists
             THEN /\ last' = PostResponse(year, body, 500, "server", 1)
                  /\ table' = table
             ELSE /\ last' = PostResponse(year, body, 200, "ok", 1)
                  /\ table' = [table EXCEPT ![year] =
                                  UpsertRow(@, JsonColumn(data), Param(body.theme),
                                            JsonColumn(bg))]
    /\ UNCHANGED <<variant, pool, cpc, tableExists, now, rst, rs>>

\* ---------------------------------------------------- GET /api/db/backup
\* SELECT * FROM annual_plans, returned as read.
Backup ==
    /\ variant = 1
    /\ Listening
    /\ \E ok \in BOOLEAN :
          last' = IF Offline
                  THEN [op |-> "backup", status |-> 503, msg |-> "offline", stmts |-> 0,
                        rows |-> EmptyTable]
                  ELSE IF ~ok \/ ~tableExists
                  THEN [op |-> "backup", status |-> 500, msg |-> "server", stmts |-> 1,
                        rows |-> EmptyTable]
                  ELSE [op |-> "backup", status |-> 200, msg |-> "ok", stmts |-> 1,
                        rows |-> Visible]
    /\ UNCHANGED <<variant, pool, cpc, tableExists, table, now, rst, rs>>

\* --------------------------------------------------------- GET /api/data
\* Variant 2: the plan of the latest year, read like GET /api/plan/:year
\* but answering 500 for an unusable document.
LatestYear(t) ==
    LET ys == {y \in Years : t[y].present}
    IN  IF ys = {} THEN 0 ELSE CHOOSE y \in ys : \A z \in ys : z <= y

GetData ==
    /\ variant = 2
    /\ Listening
    /\ \E ok \in BOOLEAN :
          LET y == LatestYear(Visible)
              r == IF y = 0 THEN PlanResponse(0, NoRow) ELSE PlanResponse(y, Visible[y])
          IN  last' = IF Offline
                      THEN [op |-> "data", year |-> 0, status |-> 503, msg |-> "offline",
                            stmts |-> 0]
                      ELSE IF ~ok \/ ~tableExists
                      THEN [op |-> "data", year |-> 0, status |-> 500, msg |-> "server",
                            stmts |-> 1]
                      ELSE [r EXCEPT !.op = "data"]
    /\ UNCHANGED <<variant, pool, cpc, tableExists, table, now, rst, rs>>

\* ------------------------------------------- DELETE /api/test/clear-data
\* createTable(): nothing without a pool, else CREATE TABLE IF NOT EXISTS.
\* The result is "skipped", "created" or "failed".
CreateTableResult(ok) ==
    IF Offline THEN "skipped" ELSE IF ok THEN "created" ELSE "failed"

ResetResponse(status, msg, stmts) ==
    [op |-> "reset", status |-> status, msg |-> msg, stmts |-> stmts]

\* The pool check and DROP TABLE IF EXISTS.
ResetDrop ==
    /\ variant = 1
    /\ Listening
    /\ NoRestoreInFlight
    /\ rs = "idle"
    /\ \E ok \in BOOLEAN :
          IF Offline
          THEN /\ last' = ResetResponse(503, "offline", 0)
               /\ UNCHANGED <<rs, tableExists, table>>
          ELSE IF ~ok
          THEN /\ last' = ResetResponse(500, "server", 1)
               /\ UNCHANGED <<rs, tableExists, table>>
          ELSE /\ rs' = "create"
               /\ tableExists' = FALSE
               /\ table' = EmptyTable
               /\ last' = ResetResponse(0, "pending", 1)
    /\ UNCHANGED <<variant, pool, cpc, now, rst>>

\* await createTable() and the response.
ResetCreate ==
    /\ rs = "create"
    /\ rs' = "idle"
    /\ \E ok \in BOOLEAN :
          LET res == CreateTableResult(ok)
          IN  /\ tableExists' = (tableExists \/ res = "created")
              /\ last' = IF res = "failed"
                         THEN ResetResponse(500, "server", 2)
                         ELSE ResetResponse(200, "ok", IF res = "created" THEN 2 ELSE 1)
    /\ UNCHANGED <<variant, pool, cpc, table, now, rst>>

\* --------------------------------------------------- POST /api/db/restore
\* Rows of a backup file: as GET /api/db/backup writes them (documents as
\* objects), and malformed, with a data field that is no JSON text.
RowGood(y) ==
    [year |-> y, data |-> FullData(EmptyObj, EmptyObj), theme |-> StrDark,
     bg_images |-> EmptyObj, created_at |-> 0]
RowBad(y) ==
    [year |-> y, data |-> StrAbc, theme |-> StrDark, bg_images |-> EmptyObj,
     created_at |-> 0]
RestoreRows == {RowGood(2024), RowBad(2025)}
RestoreBodies ==
    {[isArray |-> FALSE, rows |-> <<>>]} \cup
    {[isArray |-> TRUE, rows |-> r] : r \in UNION {[1..len -> RestoreRows] : len \in 0..MaxBatch}}

\* typeof x === 'string' ? x : JSON.stringify(x)
AsJsonString(x) == IF IsString(x) THEN x ELSE JsonStringify(x)

\* Whether the store accepts INSERT INTO annual_plans (year, data, theme,
\* bg_images, created_at) for row into t: data is NOT NULL, both documents
\* must be JSON text, and year is unique.
InsertOk(t, row) ==
    /\ JsonColumnOk(Param(AsJsonString(row.data)))
    /\ Param(AsJsonString(row.data)) # SqlNull
    /\ JsonColumnOk(Param(AsJsonString(row.bg_images)))
    /\ ~t[row.year].present

InsertRow(t, row) ==
    [t EXCEPT ![row.year] =
        MkRow(JsonColumn(Param(AsJsonString(row.data))), Param(row.theme),
              JsonColumn(Param(AsJsonString(row.bg_images))), row.created_at)]

\* A restore request and its response: the body (isArray, rows) and the
\* table as it stood when the request was taken up.
RestoreResponse(status, msg, stmts) ==
    [op |-> "restore", status |-> status, msg |-> msg, stmts |-> stmts,
     isArray |-> TRUE, body |-> rst.body, pre |-> rst.pre]

\* The pool check, the array check, and the call of pool.getConnection().
RestoreStart(body) ==
    /\ variant = 1
    /\ cpc = "done"
    /\ rst.pc = "idle"
    /\ rs = "idle"
    /\ IF Offline
       THEN /\ last' = [op |-> "restore", status |-> 503, msg |-> "offline", stmts |-> 0,
                         isArray |-> body.isArray, body |-> body.rows, pre |-> table]
            /\ rst' = rst
       ELSE IF ~body.isArray
       THEN /\ last' = [op |-> "restore", status |-> 400, msg |-> "format", stmts |-> 0,
                         isArray |-> body.isArray, body |-> body.rows, pre |-> table]
            /\ rst' = rst
       ELSE /\ rst' = [RstIdle EXCEPT !.pc = "getConnection", !.body = body.rows, !.i = 1,
                                      !.pre = table, !.undo = table]
            /\ last' = [op |-> "restore", status |-> 0, msg |-> "pending", stmts |-> 0,
                         isArray |-> body.isArray, body |-> body.rows, pre |-> table]
    /\ UNCHANGED <<variant, pool, cpc, tableExists, table, now, rs>>

\* A rejection that leaves the handler. What the client gets is the
\* framework's doing: nothing (status 0) where the rejected promise of an
\* async handler is dropped, the default error page (500) where it is
\* passed on.
RestoreEscapes ==
    /\ \E st \in {0, 500} : last' = RestoreResponse(st, "unhandled", rst.n)
    /\ rst' = RstIdle

\* const connection = await pool.getConnection(), before the try.
RestoreGetConnection ==
    /\ rst.pc = "getConnection"
    /\ \E ok \in BOOLEAN :
          IF ok
          THEN /\ rst' = [rst EXCEPT !.pc = "begin", !.conn = TRUE]
               /\ last' = last
          ELSE RestoreEscapes
    /\ UNCHANGED <<variant, pool, cpc, tableExists, table, now, rs>>

\* await connection.beginTransaction()
RestoreBegin ==
    /\ rst.pc = "begin"
    /\ \E ok \in BOOLEAN :
          rst' = IF ok
                 THEN [rst EXCEPT !.pc = "truncate", !.n = @ + 1, !.inTx = TRUE,
                                  !.undo = table]
                 ELSE [rst EXCEPT !.pc = "rollback", !.n = @ + 1]
    /\ UNCHANGED <<variant, pool, cpc, tableExists, table, now, rs, last>>

\* Whether TRUNCATE TABLE ends the open transaction (an implicit commit).
TruncateCommits == TRUE

\* await connection.query('TRUNCATE TABLE annual_plans')
RestoreTruncate ==
    /\ rst.pc = "truncate"
    /\ \E ok \in BOOLEAN :
          IF ok /\ tableExists
          THEN /\ table' = EmptyTable
               /\ rst' = [rst EXCEPT !.pc = IF Len(rst.body) = 0 THEN "commit" ELSE "insert",
                                     !.n = @ + 1,
                                     !.inTx = IF TruncateCommits THEN FALSE ELSE @]
          ELSE /\ table' = table
               /\ rst' = [rst EXCEPT !.pc = "rollback", !.n = @ + 1]
    /\ UNCHANGED <<variant, pool, cpc, tableExists, now, rs, last>>

\* One turn of the loop: the INSERT of row i.
RestoreInsert ==
    /\ rst.pc = "insert"
    /\ \E ok \in BOOLEAN :
          LET row == rst.body[rst.i]
          IN  IF ok /\ tableExists /\ InsertOk(table, row)
              THEN /\ table' = InsertRow(table, row)
                   /\ rst' = [rst EXCEPT !.pc = IF rst.i = Len(rst.body) THEN "commit" ELSE "insert",
                                         !.i = @ + 1, !.n = @ + 1]
              ELSE /\ table' = table
                   /\ rst' = [rst EXCEPT !.pc = "rollback", !.n = @ + 1]
    /\ UNCHANGED <<variant, pool, cpc, tableExists, now, rs, last>>

\* await connection.commit(), the 200 response, and finally release().
RestoreCommit ==
    /\ rst.pc = "commit"
    /\ \E ok \in BOOLEAN :
          IF ok
          THEN /\ last' = RestoreResponse(200, "ok", rst.n + 1)
               /\ rst' = RstIdle
          ELSE /\ rst' = [rst EXCEPT !.pc = "rollback", !.n = @ + 1]
               /\ last' = last
    /\ UNCHANGED <<variant, pool, cpc, tableExists, table, now, rs>>

\* catch: await connection.rollback(), the 500 response; finally release().
\* A rollback undoes what the open transaction changed, and nothing when
\* no transaction is open; a rollback that throws leaves the catch block.
RestoreRollback ==
    /\ rst.pc = "rollback"
    /\ table' = IF rst.inTx THEN rst.undo ELSE table
    /\ \E ok \in BOOLEAN :
          IF ok
          THEN /\ last' = RestoreResponse(500, "restore", rst.n + 1)
               /\ rst' = RstIdle
          ELSE RestoreEscapes
    /\ UNCHANGED <<variant, pool, cpc, tableExists, now, rs>>

\* ------------------------------------------------------ the specification
Next ==
    \/ Tick
    \/ ConnectResolve
    \/ ConnectVerify
    \/ ConnectCreateTable
    \/ Status
    \/ \E y \in Years : GetPlan(y)
    \/ \E y \in Years : \E b \in PostBodies : PostPlan(y, b)
    \/ Backup
    \/ GetData
    \/ ResetDrop
    \/ ResetCreate
    \/ \E b \in RestoreBodies : RestoreStart(b)
    \/ RestoreGetConnection
    \/ RestoreBegin
    \/ RestoreTruncate
    \/ RestoreInsert
    \/ RestoreCommit
    \/ RestoreRollback

Spec == Init /\ [][Next]_vars

\* ------------------------------------------------------------ properties
\* A step in which a request is taken up and answered at once: a response
\* is recorded, and neither startup, the clock nor a handler in flight
\* moves.
AnsweredAtOnce ==
    /\ UNCHANGED <<pool, cpc, now, rst, rs>>
    /\ last' # last

DataOps == {"get", "post", "backup", "restore", "reset", "data"}
StoreUntouched == UNCHANGED <<tableExists, table>>

\* connectToDatabase has ended without a pool: skipped (pool is still
\* undefined) or failed (pool = null).
StoreOffline == cpc = "done" /\ pool # "pool"

\* C3: once the startup connection was skipped or has failed, every data
\* endpoint answers 503 without issuing a statement, whatever the body, and
\* GET /api/status answers ok with dbConnected false.
C3_OfflineAnswers503 ==
    [][(StoreOffline /\ AnsweredAtOnce) =>
          /\ last'.op \in DataOps =>
                /\ last'.status = 503
                /\ last'.msg = "offline"
                /\ last'.stmts = 0
                /\ StoreUntouched
          /\ last'.op = "status" =>
                /\ last'.status = 200
                /\ last'.dbConnected = FALSE]_vars

\* C3 happens: a restore was refused with 503 after the connection failed.
C3_Witness ==
    /\ pool = "null"
    /\ last.op = "restore"
    /\ last.status = 503
    /\ last.isArray

\* The step of a POST /api/plan/:year that was answered.
PostStep ==
    /\ last'.op = "post"
    /\ UNCHANGED <<pool, cpc, now, rst, rs, tableExists>>

\* The column a posted field ends in: NULL when it was left out.
Stored(v) == IF v = Undefined THEN SqlNull ELSE v

\* C7: a successful upsert of year Y leaves one row for Y holding the
\* posted data, theme and backgroundImages (NULL for a field left out),
\* with the created_at of the first insert, and leaves every other year's
\* row as it was.
C7_UpsertKeepsCreatedAt ==
    [][(PostStep /\ last'.status = 200) =>
          LET y == last'.year
              b == last'.body
          IN  /\ table'[y].present
              /\ table'[y].data = JsObject(b.yearData, b.monthData, "{}")
              /\ table'[y].theme = Stored(b.theme)
              /\ table'[y].bg_images = Stored(b.backgroundImages)
              /\ table'[y].created_at =
                    IF table[y].present THEN table[y].created_at ELSE now
              /\ \A z \in Years \ {y} : table'[z] = table[z]]_vars

\* C7 happens: the last upsert left out the theme, and the row it wrote to
\* is older than the clock.
C7_Witness ==
    /\ last.op = "post"
    /\ last.status = 200
    /\ last.body.theme = Undefined
    /\ table[last.year].present
    /\ table[last.year].theme = SqlNull
    /\ table[last.year].created_at < now

\* The step of a POST /api/db/restore answered when it is taken up.
RestoreRefusedStep ==
    /\ last'.op = "restore"
    /\ last'.msg # "pending"
    /\ rst.pc = "idle"
    /\ UNCHANGED <<pool, cpc, now, rst, rs>>

FalsyValues == {Undefined, Null, Zero, JsString(RawText(""))}

\* C4 as stated: with the store online, POST /api/plan/Y answers 400
\* exactly when yearData or monthData is absent from the body, POST
\* /api/db/restore exactly when the body is no array, and a 400 issues no
\* statement and leaves the table unchanged.
C4_Original ==
    [][/\ (PostStep /\ ~Offline) =>
             /\ last'.status = 400 <=>
                   (last'.body.yearData = Undefined \/ last'.body.monthData = Undefined)
             /\ last'.status = 400 => (last'.stmts = 0 /\ StoreUntouched)
       /\ (RestoreRefusedStep /\ ~Offline) =>
             /\ last'.status = 400 <=> ~last'.isArray
             /\ last'.status = 400 => (last'.stmts = 0 /\ StoreUntouched)]_vars

\* C4 amended: with the store online, POST /api/plan/Y answers 400 exactly
\* when yearData or monthData is absent or falsy (null, 0, the empty
\* string), POST /api/db/restore exactly when the body is no array, and a
\* 400 issues no statement and leaves the table unchanged.
C4_ValidationShortCircuits ==
    [][/\ (PostStep /\ ~Offline) =>
             /\ last'.status = 400 <=>
                   (last'.body.yearData \in FalsyValues \/ last'.body.monthData \in FalsyValues)
             /\ last'.status = 400 => (last'.stmts = 0 /\ StoreUntouched)
       /\ (RestoreRefusedStep /\ ~Offline) =>
             /\ last'.status = 400 <=> ~last'.isArray
             /\ last'.status = 400 => (last'.stmts = 0 /\ StoreUntouched)]_vars

\* C4 happens: a body whose yearData is present, with the value 0, was
\* refused with 400.
C4_Witness ==
    /\ pool = "pool"
    /\ last.op = "post"
    /\ last.status = 400
    /\ last.body.yearData = Zero
    /\ last.body.monthData = EmptyObj

\* The step of a GET /api/plan/:year that the store answered.
GetStep ==
    /\ last'.op = "get"
    /\ last'.msg \notin {"offline", "server"}
    /\ UNCHANGED <<pool, cpc, now, rst, rs, tableExists, table>>

\* A stored document the read cannot use: NULL, or (where the driver hands
\* documents over parsed) a JSON string whose content is no JSON text.
FailsToDeserialize(doc) ==
    \/ doc = SqlNull
    \/ variant = 1 /\ doc.k = "string" /\ doc.s.t # "json"

Corrupt(row) ==
    row.present /\ (FailsToDeserialize(row.data) \/ FailsToDeserialize(row.bg_images))

RECURSIVE InsertFrom(_, _, _)
InsertFrom(t, rows, i) ==
    IF i > Len(rows) THEN t ELSE InsertFrom(InsertRow(t, rows[i]), rows, i + 1)
RestoredTable(rows) == InsertFrom(EmptyTable, rows, 1)
\* Whether the store accepts every row of the batch in turn.
RECURSIVE AcceptsFrom(_, _, _)
AcceptsFrom(t, rows, i) ==
    \/ i > Len(rows)
    \/ InsertOk(t, rows[i]) /\ AcceptsFrom(InsertRow(t, rows[i]), rows, i + 1)

\* A restore that was taken up has ended, by a response or by a rejection
\* that left the handler.
RestoreEnded == last.op = "restore" /\ last.isArray /\ last.msg \in {"ok", "restore", "unhandled"}

\* C1: POST /api/db/restore is all-or-nothing: when a step after the clear
\* fails, the table holds the rows it held before the call; when none
\* fails, it holds the rows of the body.
C1_RestoreAllOrNothing ==
    RestoreEnded =>
        IF last.msg = "ok"
        THEN table = RestoredTable(last.body)
        ELSE table = last.pre

\* C2: a POST /api/plan/Y answered 200 and followed by GET /api/plan/Y,
\* with no other request in between, is answered 200 with the posted
\* yearData, monthData and theme, and the posted backgroundImages, or null
\* when it was left out.
C2_RoundTrip ==
    [][(last.op = "post" /\ last.status = 200 /\ GetStep /\ last'.year = last.year) =>
          /\ last'.status = 200
          /\ last'.yearData = last.body.yearData
          /\ last'.monthData = last.body.monthData
          /\ Param(last'.theme) = Param(last.body.theme)
          /\ last'.backgroundImages =
                IF last.body.backgroundImages = Undefined THEN Null
                ELSE last.body.backgroundImages]_vars

\* C5: a store failure at any point of a request ends in one response, 500
\* with an error body, sent by the handler: no rejection leaves the
\* handler, and the restore connection is back in the pool.
C5_FailuresAnswered ==
    /\ last.msg # "unhandled"
    /\ last.msg \in {"server", "restore"} => last.status = 500
    /\ rst.pc = "idle" => ~rst.conn

\* The step of a GET /api/db/backup that the store answered.
BackupStep ==
    /\ last'.op = "backup"
    /\ last'.status = 200
    /\ UNCHANGED <<pool, cpc, now, rst, rs, tableExists, table>>

\* The complete contents a read may see while rst is in flight: the table
\* from before the restore, or the restored one.
CompleteContents ==
    {rst.pre} \cup
    (IF AcceptsFrom(EmptyTable, rst.body, 1) THEN {RestoredTable(rst.body)} ELSE {})

\* C6: a GET /api/plan/:year or GET /api/db/backup served while a restore
\* is in flight sees the complete table from before the restore or the
\* complete restored table.
C6_RestoreIsolation ==
    [][rst.pc # "idle" =>
          /\ BackupStep => last'.rows \in CompleteContents
          /\ GetStep =>
                \E t \in CompleteContents : last' = PlanResponse(last'.year, t[last'.year])]_vars

YearsOf(t) == {y \in Years : t[y].present}

\* C8: a row for year Y exists exactly when Y was upserted, or was part of
\* a restore that succeeded, since the last reset or restore; GET for a
\* year without a row answers 404; only reset and restore remove rows.
C8_RecordLifecycle ==
    [][/\ PostStep =>
             YearsOf(table') = YearsOf(table) \cup
                 (IF last'.status = 200 THEN {last'.year} ELSE {})
       /\ (GetStep /\ ~Visible[last'.year].present) => last'.status = 404
       /\ (rst.pc # "idle" /\ rst'.pc = "idle") =>
             IF last'.msg = "ok"
             THEN YearsOf(table') = {rst.body[j].year : j \in 1..Len(rst.body)}
             ELSE YearsOf(table') \subseteq YearsOf(rst.pre)
       /\ (YearsOf(table) \ YearsOf(table') # {}) =>
             (rst.pc # "idle" \/ (rs = "idle" /\ rs' = "create"))]_vars

\* C10: availability starts OFFLINE and changes only from OFFLINE to
\* ONLINE, made by connectToDatabase once the connection is verified and
\* the table ensured; it never goes back, and nothing changes it once
\* connectToDatabase has ended.
C10_AvailabilityStateMachine ==
    [][/\ pool = "pool" => pool' = "pool"
       /\ (pool # "pool" /\ pool' = "pool") => (cpc' = "done" /\ tableExists')
       /\ cpc = "done" => pool' = pool]_vars

====
